---- MODULE Spec2Model ----
(***************************************************************************)
(* A model of any_ls: the provider registry and diagnostics aggregation    *)
(* of AnyHandler (handlers/mod.rs), the request/notification dispatch of   *)
(* LanguageServer (lib.rs), the just provider (handlers/just.rs) and the   *)
(* property-file provider (handlers/props.rs).                             *)
(*                                                                         *)
(* Text is a sequence of characters; a character is a one-element string,  *)
(* or the name of its code point ("U00E9") when it is not ASCII or has no  *)
(* escape in a TLA+ string ("U000B").                                      *)
(***************************************************************************)
EXTENDS Integers, Sequences, FiniteSets, TLC

VARIABLES
    phase,           \* "new" while AnyHandler::new registers, then "running"
    handlers,        \* AnyHandler.handlers
    offers,          \* what each handler's get_capabilities returns, in order
    justs,           \* per registered handler: its Just's temp file, last call
    text_documents,  \* AnyHandler.text_documents: uri -> document or NoDoc
    capabilities,    \* the ServerCapabilities sent in InitializeResult
    pass,            \* what each handler answered in the last diagnostics pass
    response,        \* the response sent for the message handled last
    stderr_case,     \* what the just executable prints when it fails
    temp_file,       \* the bytes of Just.temp_file, of a Just run on its own
    just_run,        \* the last Just::update_diagnostics call: its input, its I/O
    just_result,     \* what that call returned
    fs,              \* the directories from the working directory up to /
    prop_files,      \* PropsHandler.prop_files
    definitions,     \* PropsHandler.definitions: name -> its Definitions
    props_built,     \* whether PropsHandler::new has run
    hover_request,   \* the contents and position of a hover request
    hover_result,    \* what PropsHandler::hover returned for it
    merge_request,   \* ServerCapabilities values given to the capability fold
    merge_result     \* what the fold returned for them

server_vars == <<phase, handlers, offers, justs, justs, text_documents, capabilities, pass, response>>
just_vars == <<stderr_case, temp_file, just_run, just_result>>
props_vars == <<fs, prop_files, definitions, props_built>>
hover_vars == <<hover_request, hover_result>>
merge_vars == <<merge_request, merge_result>>
vars == <<server_vars, just_vars, props_vars, hover_vars, merge_vars>>

(***************************************************************************)
(* Bounds                                                                  *)
(***************************************************************************)
MaxHandlers == 2
MaxTextLen == 4
MaxLine == 1
MaxDepth == 3

Uris == {"file:///a"}
FileTypes == {"just", "justfile", "txt"}
Contents == {<<"x">>, <<"y", "\n">>}

(***************************************************************************)
(* Sequence helpers                                                        *)
(***************************************************************************)
RECURSIVE Flatten(_)
Flatten(ss) == IF ss = <<>> THEN <<>> ELSE Head(ss) \o Flatten(Tail(ss))

\* The sequences over S of length up to n.
SeqsUpTo(S, n) == UNION {[1..k -> S] : k \in 0..n}

Min(S) == CHOOSE x \in S : \A y \in S : x <= y
Max(S) == CHOOSE x \in S : \A y \in S : y <= x

(***************************************************************************)
(* ServerCapabilities.  The merge treats every field alike (one            *)
(* set_capabilities! line each); the model keeps the two fields            *)
(* get_capabilities presets and three of the fields it leaves absent.      *)
(***************************************************************************)
None == "None"

Fields == {"position_encoding", "text_document_sync", "hover_provider",
           "completion_provider", "diagnostic_provider"}

DefaultCapabilities == [f \in Fields |-> None]

\* Just::get_capabilities
JustCapabilities ==
    [DefaultCapabilities EXCEPT !["diagnostic_provider"] = "Options"]

\* PropsHandler::get_capabilities
PropsCapabilities ==
    [DefaultCapabilities EXCEPT !["completion_provider"] = "label_details",
                                !["hover_provider"] = "Simple(true)"]

\* The closed set of handler variants (AllHandlers).
HandlerVariants == {"Just"}

\* Handler::filetype_supported for AllHandlers: Just::filetype_supported
filetype_supported(handler, filetype) == filetype \in {"just", "justfile"}

\* Handler::get_capabilities for AllHandlers: Just::get_capabilities
handler_capabilities(handler) == JustCapabilities

\* A fold started from ServerCapabilities::default(), nothing preset.
InitialCapabilities_unset == DefaultCapabilities

\* The capabilities get_capabilities starts its fold from.
InitialCapabilities ==
    [DefaultCapabilities EXCEPT !["position_encoding"] = "utf-16",
                                !["text_document_sync"] = "INCREMENTAL"]

\* A get_or_insert that replaces the value the field holds.
set_capabilities_overwrite(current, offered) ==
    IF offered # None THEN offered ELSE current

\* Option::get_or_insert, under `if let Some(v) = offered`.
set_capabilities(current, offered) ==
    IF offered # None /\ current = None THEN offered ELSE current

\* One iteration of the loop of get_capabilities, offered being what
\* handler.get_capabilities() returned: every field merged.
merge_handler(caps, offered) ==
    [f \in Fields |-> set_capabilities(caps[f], offered[f])]

RECURSIVE fold_capabilities(_, _)
fold_capabilities(caps, os) ==
    IF os = <<>> THEN caps
    ELSE fold_capabilities(merge_handler(caps, Head(os)), Tail(os))

\* What the handlers' get_capabilities return, in the order of the vector.
handler_offers(hs) == [i \in 1..Len(hs) |-> handler_capabilities(hs[i])]

\* AnyHandler::get_capabilities, given what its handlers return.
get_capabilities(os) == fold_capabilities(InitialCapabilities, os)

\* Values a Handler::get_capabilities can return (any ServerCapabilities):
\* those of Just and of PropsHandler, and records that leave absent or set,
\* to a value other than the preset one, either preset field, that offer
\* one of two values for hover_provider or none, and that offer
\* completion_provider or not.
OfferedCapabilities ==
    {JustCapabilities, PropsCapabilities} \cup
    {[position_encoding |-> pt[1], text_document_sync |-> pt[2],
      hover_provider |-> h, completion_provider |-> c,
      diagnostic_provider |-> None] :
        pt \in {<<None, None>>, <<"utf-8", None>>, <<None, "FULL">>},
        h \in {None, "simple", "rich"}, c \in {None, "basic"}}

(***************************************************************************)
(* Documents (lsp_textdocument::TextDocuments behind handle_notification)  *)
(***************************************************************************)
NoDoc == [present |-> FALSE]

\* What update_diagnostics reads of a document: language_id(), get_content().
Document(language_id, content) ==
    [present |-> TRUE, language_id |-> language_id, content |-> content]

(***************************************************************************)
(* Diagnostics aggregation                                                 *)
(***************************************************************************)
Ok(items) == [ok |-> TRUE, items |-> items]
Err(e) == [ok |-> FALSE, error |-> e]

LogError(s) == [type |-> "Log", uri |-> "", msg |-> s]
NoSuchDocument(uri) == [type |-> "NoSuchDocument", uri |-> uri, msg |-> <<>>]

\* HandlerError's Display
to_string(e) ==
    IF e.type = "Log" THEN e.msg ELSE <<"No such document: ", e.uri>>

REQUEST_FAILED == -32803

NoResponse == [kind |-> "none"]

\* The request a response answers (its id): the method and the document.
Request(method, uri) == [method |-> method, uri |-> uri]

\* lsp_server::Response::new_ok, new_err
new_ok(id, result) ==
    [kind |-> "result", id |-> id, items |-> result]
new_err(id, code, message) ==
    [kind |-> "error", id |-> id, code |-> code, message |-> message]

(***************************************************************************)
(* Characters                                                              *)
(***************************************************************************)
AsciiLetters ==
    {"a", "b", "c", "d", "e", "f", "g", "h", "i", "j", "k", "l", "m", "n", "o",
     "p", "q", "r", "s", "t", "u", "v", "w", "x", "y", "z",
     "A", "B", "C", "D", "E", "F", "G", "H", "I", "J", "K", "L", "M", "N", "O",
     "P", "Q", "R", "S", "T", "U", "V", "W", "X", "Y", "Z"}
AsciiDigits == {"0", "1", "2", "3", "4", "5", "6", "7", "8", "9"}
\* U00E9 e-acute, U0663 ARABIC-INDIC DIGIT THREE, U2014 EM DASH,
\* U2502 BOX DRAWINGS LIGHT VERTICAL, U25B6 the arrow head, U1F600 an emoji.
\* The characters with the property White_Space: U+0009..U+000D, U+0020,
\* U+0085, U+00A0, U+1680, U+2000..U+200A, U+2028, U+2029, U+202F, U+205F,
\* U+3000.
AsciiWhitespace == {"\t", "\n", "U000B", "\f", "\r", " "}
TwoByteWhitespace == {"U0085", "U00A0"}
ThreeByteWhitespace ==
    {"U1680", "U2000", "U2001", "U2002", "U2003", "U2004", "U2005", "U2006",
     "U2007", "U2008", "U2009", "U200A", "U2028", "U2029", "U202F", "U205F",
     "U3000"}
TwoByteChars == {"U00E9", "U0663"} \cup TwoByteWhitespace
ThreeByteChars == {"U2014", "U2502", "U25B6"} \cup ThreeByteWhitespace
FourByteChars == {"U1F600"}

\* char::len_utf8
len_utf8(c) ==
    CASE c \in TwoByteChars -> 2
      [] c \in ThreeByteChars -> 3
      [] c \in FourByteChars -> 4
      [] OTHER -> 1

\* char::len_utf16
len_utf16(c) == IF c \in FourByteChars THEN 2 ELSE 1

\* char::is_whitespace, and the regex class \s
is_whitespace(c) ==
    c \in AsciiWhitespace \cup TwoByteWhitespace \cup ThreeByteWhitespace

\* The regex classes \w and \d (Unicode-aware) and `.`
is_word(c) == c \in AsciiLetters \cup AsciiDigits \cup {"_", "U00E9", "U0663"}
is_digit(c) == c \in AsciiDigits \cup {"U0663"}
is_dot(c) == c # "\n"

(***************************************************************************)
(* Just::parse_stderr                                                      *)
(***************************************************************************)
Arrow == <<"U2014", "U2014", "U25B6">>

\* The first index >= i of s that is past the run of characters in class
\* starting at i (Len(s) + 1 when the run reaches the end).
in_class(class, c) ==
    CASE class = "word" -> is_word(c)
      [] class = "digit" -> is_digit(c)
      [] OTHER -> is_dot(c)

RECURSIVE run_end(_, _, _)
run_end(s, i, class) ==
    IF i > Len(s) \/ ~in_class(class, s[i]) THEN i ELSE run_end(s, i + 1, class)

arrow_at(s, a) ==
    a + 2 <= Len(s) /\ SubSeq(s, a, a + 2) = Arrow

\* `:(\d+):(\d+)` at c, within a line that ends before index f: the two
\* greedy digit runs, or <<>> when it does not match there.
location_at(s, c, f) ==
    IF c >= f \/ s[c] # ":" THEN <<>>
    ELSE LET d1 == run_end(s, c + 1, "digit") IN
         IF d1 = c + 1 \/ d1 >= f \/ s[d1] # ":" THEN <<>>
         ELSE LET d2 == run_end(s, d1 + 1, "digit") IN
              IF d2 = d1 + 1 THEN <<>>
              ELSE <<SubSeq(s, c + 1, d1 - 1), SubSeq(s, d1 + 1, d2 - 1)>>

\* `.*:(\d+):(\d+)` from index b: the greedy `.*` takes the last colon from
\* which the rest matches.
locations_from(s, b, f) ==
    {c \in b..(f - 1) : location_at(s, c, f) # <<>>}

\* The four captures of a match: the word before the colon, the rest of
\* its line, and the two numbers of the location.
captures(s, i, j, e, loc) ==
    <<SubSeq(s, i, j - 1), SubSeq(s, j + 2, e - 1), loc[1], loc[2]>>

\* `.*——▶.*:(\d+):(\d+)` on the line e+1..f-1, arrows being the places of
\* the arrow from which a location follows: both `.*` are greedy, so the
\* last such arrow and, after it, the last colon that starts a location.
match_arrows(s, i, j, e, f, arrows) ==
    IF arrows = {} THEN <<>>
    ELSE captures(s, i, j, e,
                  location_at(s, Max(locations_from(s, Max(arrows) + 3, f)), f))

\* The line after the line break at e, which ends before f.
match_line(s, i, j, e, f) ==
    match_arrows(s, i, j, e, f,
                 {a \in (e + 1)..(f - 1) :
                     arrow_at(s, a) /\ locations_from(s, a + 3, f) # {}})

\* `(.*)\n`: the message runs to the line break at e.
match_message(s, i, j, e) ==
    IF e > Len(s) THEN <<>> ELSE match_line(s, i, j, e, run_end(s, e + 1, "dot"))

\* `(\w+):\s`: the word i..j-1, the colon at j, a whitespace after it.
match_word(s, i, j) ==
    IF j = i \/ j + 1 > Len(s) \/ s[j] # ":" \/ ~is_whitespace(s[j + 1]) THEN <<>>
    ELSE match_message(s, i, j, run_end(s, j + 2, "dot"))

\* The pattern anchored at i: the captures, or <<>>.
match_at(s, i) == match_word(s, i, run_end(s, i, "word"))

RECURSIVE first_match(_, _)
\* The match at the leftmost index from i on at which the pattern matches.
first_match(s, i) ==
    IF i > Len(s) THEN <<>>
    ELSE IF match_at(s, i) # <<>> THEN match_at(s, i)
    ELSE first_match(s, i + 1)

\* regex_captures!: the leftmost match.
regex_captures(s) == first_match(s, 1)

digit_value(c) ==
    CASE c = "0" -> 0 [] c = "1" -> 1 [] c = "2" -> 2 [] c = "3" -> 3
      [] c = "4" -> 4 [] c = "5" -> 5 [] c = "6" -> 6 [] c = "7" -> 7
      [] c = "8" -> 8 [] OTHER -> 9

RECURSIVE decimal(_)
decimal(ds) ==
    IF ds = <<>> THEN 0
    ELSE 10 * decimal(SubSeq(ds, 1, Len(ds) - 1)) + digit_value(ds[Len(ds)])

RECURSIVE strip_zeros(_)
strip_zeros(ds) ==
    IF ds # <<>> /\ Head(ds) = "0" THEN strip_zeros(Tail(ds)) ELSE ds

\* u32::MAX, as its decimal digits
U32MaxDigits == <<"4", "2", "9", "4", "9", "6", "7", "2", "9", "5">>

RECURSIVE digits_greater(_, _)
\* ds > es, for two digit strings of the same length
digits_greater(ds, es) ==
    IF ds = <<>> THEN FALSE
    ELSE IF Head(ds) # Head(es) THEN digit_value(Head(ds)) > digit_value(Head(es))
    ELSE digits_greater(Tail(ds), Tail(es))

\* str::parse::<u32>: <<value>>, or <<>> for an error (a character that is
\* no ASCII digit, or a value above u32::MAX).
parse_u32(ds) ==
    LET sig == strip_zeros(ds) IN
    IF ds = <<>> \/ \E k \in 1..Len(ds) : ds[k] \notin AsciiDigits THEN <<>>
    ELSE IF Len(sig) > Len(U32MaxDigits) THEN <<>>
    ELSE IF Len(sig) = Len(U32MaxDigits) /\ digits_greater(sig, U32MaxDigits) THEN <<>>
    ELSE <<decimal(sig)>>

\* Result::unwrap_or(0)
unwrap_or_0(r) == IF r = <<>> THEN 0 ELSE r[1]

\* u32::saturating_sub(1)
saturating_sub_1(n) == IF n = 0 THEN 0 ELSE n - 1

Position(line, character) == [line |-> line, character |-> character]

\* parse_severity
parse_severity(severity) ==
    IF severity = <<"e", "r", "r", "o", "r">> THEN "ERROR" ELSE None

range_of_wrapping(line, col) ==
    [start |-> Position(line - 1, col - 1), end |-> Position(line - 1, col)]

\* The Range parse_stderr builds from the parsed line and column.
range_of(line, col) ==
    [start |-> Position(saturating_sub_1(line), saturating_sub_1(col)),
     end |-> Position(saturating_sub_1(line), col)]

\* The Diagnostic parse_stderr builds from the captures.
diagnostic_of(severity, message, line, col) ==
    [range |-> range_of(unwrap_or_0(parse_u32(line)), unwrap_or_0(parse_u32(col))),
     message |-> message,
     severity |-> parse_severity(severity)]

\* The vector parse_stderr returns, given the answer of regex_captures!.
diagnostics_of(m) ==
    IF m = <<>> THEN <<>> ELSE <<diagnostic_of(m[1], m[2], m[3], m[4])>>

\* Just::parse_stderr
parse_stderr(contents) == diagnostics_of(regex_captures(contents))

\* Just::parse_stdout
parse_stdout(contents) == <<>>

(***************************************************************************)
(* Just::update_diagnostics                                                *)
(***************************************************************************)
\* What the tool can print on stderr: a severity line and a location line,
\* each part present, absent or malformed.
Numbers ==
    {<<"0">>, <<"1">>, <<"1", "3">>, <<"U0663">>,
     <<"9", "9", "9", "9", "9", "9", "9", "9", "9", "9", "9">>, <<>>}
LineNumbers == {<<"0">>, <<"7">>, <<>>}

\* Every line and column number inside a well-formed report; one pair of
\* numbers inside each report with a part absent or malformed.
StderrCases ==
    {c \in [before : {<<>>, <<"x", " ", "\n">>},
            severity : {<<"e", "r", "r", "o", "r">>, <<"w", "a", "r", "n">>},
            separator : {<<":", " ">>, <<":", "\f">>, <<":">>},
            message : {<<"U", "n", "k", ":", " ", "'", "1", "'">>},
            newline : {<<"\n">>, <<>>},
            marker : {<<" ">> \o Arrow, <<"U2014", "U25B6">>},
            line : LineNumbers,
            col : Numbers] :
        \/ /\ c.separator # <<":">>
           /\ c.newline = <<"\n">>
           /\ c.marker = <<" ">> \o Arrow
        \/ c.line = <<"7">> /\ c.col = <<"1", "3">>}

StderrText(c) ==
    c.before \o c.severity \o c.separator \o c.message \o c.newline
      \o c.marker \o <<" ", "j", "f">> \o <<":">> \o c.line \o <<":">> \o c.col
      \o <<"\n", " ", "U2502">>

JustContents == {<<>>, <<"a">>, <<"a", "b">>}

\* How the I/O of one call goes.
IoOutcomes ==
    {"set_len_err", "write_err", "spawn_err", "exit_ok", "exit_ok_not_utf8",
     "exit_fail", "exit_fail_not_utf8"}

NoRun == [io |-> "none"]
NoResult == [ok |-> FALSE, error |-> [type |-> "none"]]

JustIdle ==
    /\ stderr_case = [before |-> <<>>]
    /\ temp_file = <<>>
    /\ just_run = NoRun
    /\ just_result = NoResult

just_result_err_on_miss(io, stderr) ==
    CASE io = "exit_ok" -> Ok(parse_stdout(<<>>))
      [] io = "exit_fail" ->
            IF parse_stderr(stderr) = <<>> THEN Err(LogError(<<"parse">>))
            ELSE Ok(parse_stderr(stderr))
      [] OTHER -> Err(LogError(<<io>>))

\* What Just::update_diagnostics returns.
just_result_of(io, stderr) ==
    CASE io = "exit_ok" -> Ok(parse_stdout(<<>>))
      [] io = "exit_fail" -> Ok(parse_stderr(stderr))
      [] OTHER -> Err(LogError(<<io>>))

\* A byte no caller wrote: what set_len fills an extended file with.
Zero == "NUL"

\* File::set_len left out: the file keeps the bytes it has.
set_len_keeping(file, size) == file

\* File::set_len(size): truncates the file, or extends it with zero bytes.
set_len(file, size) ==
    IF size <= Len(file) THEN SubSeq(file, 1, size)
    ELSE file \o [k \in 1..(size - Len(file)) |-> Zero]

\* FileExt::write_all_at(buf, offset): the bytes of buf replace the file's
\* bytes from offset on; bytes past the written span stay as they were.
write_all_at(file, buf, offset) ==
    LET padded == IF offset <= Len(file) THEN file ELSE set_len(file, offset)
    IN SubSeq(padded, 1, offset) \o buf
         \o SubSeq(padded, offset + Len(buf) + 1, Len(padded))

\* write_all_at writes all of contents unless it fails part-way.
written_as(io, contents, written) ==
    IF io = "write_err" THEN written < Len(contents) ELSE written = Len(contents)

\* Just::update_diagnostics on a Just whose temp file holds file, result
\* being what just_result_of gives for the run; written says how many bytes
\* write_all_at wrote before it returned.  The tool, when it is spawned,
\* reads the file at temp_file.path().
just_call(file, contents, io, written, result) ==
    LET truncated == set_len(file, 0)
        after == IF io = "set_len_err" THEN file
                 ELSE write_all_at(truncated, SubSeq(contents, 1, written), 0)
    IN [temp_file |-> after,
        run |-> [io |-> io, contents |-> contents,
                 tool_read |-> IF io \in {"set_len_err", "write_err", "spawn_err"}
                               THEN <<"not run">> ELSE after],
        result |-> result]

\* The call applied to the Just that is run on its own.
JustCall(contents, io, written, result) ==
    LET r == just_call(temp_file, contents, io, written, result)
    IN
    /\ written_as(io, contents, written)
    /\ temp_file' = r.temp_file
    /\ just_run' = [io |-> r.run.io, contents |-> r.run.contents,
                    file_before |-> temp_file, tool_read |-> r.run.tool_read]
    /\ just_result' = r.result

\* Just::update_diagnostics called on its own.
JustUpdateDiagnostics(contents, io, written) ==
    /\ JustCall(contents, io, written, just_result_of(io, StderrText(stderr_case)))
    /\ UNCHANGED <<stderr_case, server_vars, props_vars, hover_vars, merge_vars>>


(***************************************************************************)
(* PropsHandler::hover                                                     *)
(***************************************************************************)
Definition(from_path, name, value) ==
    [from_path |-> from_path, name |-> name, value |-> value]

\* format!("{}\n{} = {}", def.from_path, def.name, def.value)
format_definition(def) ==
    def.from_path \o <<"\n">> \o def.name \o <<" ", "=", " ">> \o def.value

RECURSIVE join(_, _)
\* [String]::join
join(strings, sep) ==
    IF strings = <<>> THEN <<>>
    ELSE IF Len(strings) = 1 THEN strings[1]
    ELSE strings[1] \o sep \o join(Tail(strings), sep)

\* `!c.is_ascii_alphanumeric() && c != '_'`, negated
is_token_char(c) == c \in AsciiLetters \cup AsciiDigits \cup {"_"}

RECURSIVE byte_len(_)
\* str::len: the bytes of the UTF-8 encoding
byte_len(s) == IF s = <<>> THEN 0 ELSE len_utf8(Head(s)) + byte_len(Tail(s))

\* &s[from..to], from and to being byte offsets on character boundaries
byte_slice(s, from, to) ==
    LET keep == {k \in 1..Len(s) :
                    /\ byte_len(SubSeq(s, 1, k - 1)) >= from
                    /\ byte_len(SubSeq(s, 1, k)) <= to}
    IN IF keep = {} THEN <<>> ELSE SubSeq(s, Min(keep), Max(keep))

RECURSIVE skip_lines(_, _, _, _)
\* The first loop of hover: the bytes traversed before the target line.
skip_lines(s, k, cur_line, line) ==
    IF k > Len(s) \/ cur_line = line THEN byte_len(SubSeq(s, 1, k - 1))
    ELSE skip_lines(s, k + 1, IF s[k] = "\n" THEN cur_line + 1 ELSE cur_line, line)

RECURSIVE scan(_, _, _, _, _, _)
\* The second loop of hover, from the k-th character of the slice on.
scan(s, k, character, first_valid, bytes_traversed, num_chars_in_line) ==
    IF k > Len(s) THEN
        [first_valid |-> first_valid, bytes_traversed |-> bytes_traversed,
         stopped |-> FALSE]
    ELSE IF ~is_token_char(s[k]) /\ num_chars_in_line >= character THEN
        [first_valid |-> first_valid, bytes_traversed |-> bytes_traversed,
         stopped |-> TRUE]
    ELSE scan(s, k + 1, character,
              IF ~is_token_char(s[k]) THEN bytes_traversed + len_utf8(s[k])
              ELSE first_valid,
              bytes_traversed + len_utf8(s[k]),
              num_chars_in_line + len_utf16(s[k]))

NoHover == [some |-> FALSE]
SomeHover(text) == [some |-> TRUE, text |-> text]

\* self.definitions.get(name).map(..)
lookup(defs, name) ==
    IF name \in DOMAIN defs
    THEN SomeHover(join([i \in 1..Len(defs[name]) |-> format_definition(defs[name][i])],
                        <<"\n", "\n">>))
    ELSE NoHover

\* The end of hover: no hover, or the token's definitions.
resolve(defs, slice, character, first_valid, bytes_traversed) ==
    IF first_valid >= bytes_traversed \/ bytes_traversed <= character THEN NoHover
    ELSE lookup(defs, byte_slice(slice, first_valid, bytes_traversed))

\* PropsHandler::hover (it never returns Err)
hover(defs, contents, position) ==
    LET skipped == skip_lines(contents, 1, 0, position.line)
        slice == byte_slice(contents, skipped, byte_len(contents))
        sc == scan(slice, 1, position.character, 0, 0, 0)
    IN resolve(defs, slice, position.character, sc.first_valid, sc.bytes_traversed)

\* The texts hovered over: a token character, an ASCII delimiter, a line
\* break, a two-byte and a four-byte (two UTF-16 units) character.
HoverAlphabet == {"A", "=", "\n", "U00E9", "U1F600"}

RECURSIVE TextsUpTo(_)
TextsUpTo(n) ==
    IF n = 0 THEN {<<>>}
    ELSE LET shorter == TextsUpTo(n - 1) IN
         shorter \cup {Append(t, c) : t \in {u \in shorter : Len(u) = n - 1},
                                      c \in HoverAlphabet}

HoverTexts == TextsUpTo(MaxTextLen)

HoverPositions == [line : 0..MaxLine, character : 0..(MaxTextLen + 1)]

NoRequest == [contents |-> <<>>, position |-> [line |-> 0, character |-> 0]]
Pending == [some |-> FALSE, pending |-> TRUE]

HoverIdle ==
    /\ hover_request = NoRequest
    /\ hover_result = Pending

NotMerged == [merged |-> FALSE]

MergeIdle ==
    /\ merge_request = <<>>
    /\ merge_result = NotMerged

PropsIdle ==
    /\ fs = <<>>
    /\ prop_files = <<>>
    /\ definitions = << >>
    /\ props_built = FALSE

\* A hover request is answered.
Hover ==
    /\ hover_result = Pending
    /\ hover_result' = hover(definitions, hover_request.contents, hover_request.position)
    /\ UNCHANGED <<hover_request, props_vars, server_vars, just_vars, merge_vars>>

(***************************************************************************)
(* PropsHandler::new: traverse_parents and parse_files                     *)
(***************************************************************************)
\* get_prop_files: the stop markers and the recognized file names
StopAtNames == {".git"}
FileNames == {".env", ".env.example"}

Entry(name, kind, text) == [name |-> name, kind |-> kind, text |-> text]
Unreadable == <<"<unreadable>">>

EnvA ==
    <<"F", "O", "O", "=", "b", "a", "r", "\n",
      "F", "O", "O", " ", "=", " ", "b", "a", "z", " ", " ", "\n">>
EnvB ==
    <<"\f", "A", " ", "=", "U000B", "b", "=", "c", "U00A0", "\r", "\n",
      "n", "o", "e", "q", "\n",
      "=", "v", "\n",
      "\n",
      "F", "O", "O", "=", "1">>

\* What a directory can hold, in the order read_dir lists it.
Listings ==
    {<<>>,
     <<Entry(".env", "file", EnvA)>>,
     <<Entry(".git", "file", <<>>)>>,
     <<Entry(".env.example", "file", EnvB), Entry(".git", "dir", <<>>)>>,
     <<Entry(".git", "dir", <<>>), Entry(".env", "file", EnvB)>>,
     <<Entry(".env", "dir", <<>>), Entry("notes", "file", EnvA),
       Entry(".env.example", "file", Unreadable)>>,
     <<Entry(".env.example", "symlink", EnvA), Entry(".env", "file", EnvB)>>}

Directories ==
    [readable : {TRUE}, entries : Listings] \cup {[readable |-> FALSE, entries |-> <<>>]}

RECURSIVE Chains(_)
\* The directory chains of n levels: the first is the working directory,
\* the last is the filesystem root.
Chains(n) ==
    IF n = 0 THEN {<<>>}
    ELSE {<<d>> \o c : d \in Directories, c \in Chains(n - 1)}

\* entry.path()
PathOf(level, name) == [dir |-> level, name |-> name]

\* Path::to_string_lossy: the path as text, the directory and the file name
\* each kept as one element.
to_string_lossy(path) ==
    <<"/",
      CASE path.dir = 1 -> "d1" [] path.dir = 2 -> "d2" [] path.dir = 3 -> "d3"
        [] path.dir = 4 -> "d4" [] OTHER -> "d5",
      "/", path.name>>

RECURSIVE scan_entries(_, _, _, _)
\* The loop of traverse_parents over one directory: <<stop, found>>.
scan_entries(entries, level, stop, found) ==
    IF entries = <<>> THEN <<stop, found>>
    ELSE LET e == Head(entries) IN
         IF e.name \in StopAtNames
         THEN scan_entries(Tail(entries), level, TRUE, found)
         ELSE IF e.kind = "file" /\ e.name \in FileNames
         THEN scan_entries(Tail(entries), level, stop,
                           Append(found, PathOf(level, e.name)))
         ELSE scan_entries(Tail(entries), level, stop, found)

scan_directory_dropping_stop_level(dir, level) ==
    LET r == scan_entries(dir.entries, level, FALSE, <<>>)
    IN IF r[1] THEN <<TRUE, <<>>>> ELSE r

\* One directory scanned from scratch.
scan_directory(dir, level) == scan_entries(dir.entries, level, FALSE, <<>>)

RECURSIVE traverse_parents(_, _)
\* traverse_parents from the directory at `level`: Ok(found) or an Err.
traverse_parents(dirs, level) ==
    IF ~dirs[level].readable THEN Err(LogError(<<"read_dir">>))
    ELSE LET r == scan_directory(dirs[level], level)
             up == IF ~r[1] /\ level < Len(dirs)
                   THEN traverse_parents(dirs, level + 1)
                   ELSE Err(LogError(<<"no parent">>))
         IN Ok(r[2] \o (IF up.ok THEN up.items ELSE <<>>))

\* get_prop_files().unwrap_or_default()
get_prop_files(dirs) ==
    LET r == traverse_parents(dirs, 1) IN IF r.ok THEN r.items ELSE <<>>

RECURSIVE lines(_)
\* str::lines: split at "\n", a "\r" before it dropped; no final empty line.
lines(text) ==
    IF text = <<>> THEN <<>>
    ELSE LET e == run_end(text, 1, "dot")
             raw == SubSeq(text, 1, e - 1)
             line == IF e <= Len(text) /\ raw # <<>> /\ raw[Len(raw)] = "\r"
                     THEN SubSeq(raw, 1, Len(raw) - 1) ELSE raw
         IN <<line>> \o lines(SubSeq(text, e + 1, Len(text)))

RECURSIVE trim_start(_)
trim_start(s) ==
    IF s # <<>> /\ is_whitespace(Head(s)) THEN trim_start(Tail(s)) ELSE s

RECURSIVE trim_end(_)
trim_end(s) ==
    IF s # <<>> /\ is_whitespace(s[Len(s)]) THEN trim_end(SubSeq(s, 1, Len(s) - 1))
    ELSE s

\* str::trim
trim(s) == trim_end(trim_start(s))

RECURSIVE find(_, _, _)
find(s, c, k) ==
    IF k > Len(s) THEN 0 ELSE IF s[k] = c THEN k ELSE find(s, c, k + 1)

\* str::split_once('='): <<before, after>>, or <<>> without a '='
split_once(s) ==
    LET k == find(s, "=", 1) IN
    IF k = 0 THEN <<>> ELSE <<SubSeq(s, 1, k - 1), SubSeq(s, k + 1, Len(s))>>

push_definition_replacing(defs, def) ==
    IF def.name \in DOMAIN defs THEN [defs EXCEPT ![def.name] = <<def>>]
    ELSE defs @@ (def.name :> <<def>>)

\* self.definitions.entry(name).or_default().push(def)
push_definition(defs, def) ==
    IF def.name \in DOMAIN defs THEN [defs EXCEPT ![def.name] = Append(@, def)]
    ELSE defs @@ (def.name :> <<def>>)

RECURSIVE parse_lines(_, _, _)
\* The loop over the lines of one file.
parse_lines(defs, path, ls) ==
    IF ls = <<>> THEN defs
    ELSE LET parts == split_once(trim(Head(ls))) IN
         IF parts = <<>> THEN parse_lines(defs, path, Tail(ls))
         ELSE parse_lines(
                  push_definition(defs, Definition(to_string_lossy(path),
                                                  trim(parts[1]), trim(parts[2]))),
                  path, Tail(ls))

\* std::fs::read_to_string: <<contents>>, or <<>> for an error
read_to_string(dirs, path) ==
    LET hits == {k \in 1..Len(dirs[path.dir].entries) :
                    dirs[path.dir].entries[k].name = path.name}
        text == dirs[path.dir].entries[Min(hits)].text
    IN IF text = Unreadable THEN <<>> ELSE <<text>>

RECURSIVE parse_files(_, _, _)
\* PropsHandler::parse_files, after definitions.clear()
parse_files(defs, dirs, files) ==
    IF files = <<>> THEN defs
    ELSE LET read == read_to_string(dirs, Head(files)) IN
         IF read = <<>> THEN parse_files(defs, dirs, Tail(files))
         ELSE parse_files(parse_lines(defs, Head(files), lines(read[1])),
                          dirs, Tail(files))

\* PropsHandler::new
PropsNew ==
    /\ ~props_built
    /\ fs # <<>>
    /\ prop_files' = get_prop_files(fs)
    /\ definitions' = parse_files(<< >>, fs, get_prop_files(fs))
    /\ props_built' = TRUE
    /\ UNCHANGED <<fs, hover_vars, server_vars, just_vars, merge_vars>>

\* The directories the hovers' handler was built in: A is defined in two
\* files, AA in one, no longer name in any.
HoverFs ==
    <<[readable |-> TRUE,
       entries |-> <<Entry(".env", "file",
                           <<"A", "=", "1", "\n", "A", "A", "=", "x", "\n">>),
                     Entry(".env.example", "file", <<"A", "=">>),
                     Entry(".git", "dir", <<>>)>>],
      [readable |-> TRUE, entries |-> <<>>]>>

\* The index PropsHandler::new builds there.
HoverIndex == parse_files(<< >>, HoverFs, get_prop_files(HoverFs))

(***************************************************************************)
(* The server                                                              *)
(***************************************************************************)
\* The pass of update_diagnostics over the handlers: for each handler, what
\* it answered, or Skipped when it does not support the filetype.  The one
\* variant is Just; rs[i] is what the i-th handler's update_diagnostics
\* returned.
Skipped == [skipped |-> TRUE]
IsSkipped(r) == "skipped" \in DOMAIN r

PassOf(hs, filetype, rs) ==
    [i \in 1..Len(hs) |->
        IF filetype_supported(hs[i], filetype) THEN rs[i] ELSE Skipped]

RECURSIVE collect(_, _, _, _)
\* The loop of update_diagnostics: <<diagnostics, errors>> after handlers i..
collect(p, i, diagnostics, errors) ==
    IF i > Len(p) THEN <<diagnostics, errors>>
    ELSE IF IsSkipped(p[i]) THEN collect(p, i + 1, diagnostics, errors)
    ELSE IF p[i].ok THEN collect(p, i + 1, diagnostics \o p[i].items, errors)
    ELSE collect(p, i + 1, diagnostics, Append(errors, p[i].error))

\* errors.first() in place of errors.pop().
aggregate_first_error(diagnostics, errors) ==
    IF diagnostics = <<>> /\ errors # <<>> THEN Err(errors[1])
    ELSE Ok(diagnostics)

\* The end of update_diagnostics: errors.pop() when nothing was collected.
aggregate(diagnostics, errors) ==
    IF diagnostics = <<>> /\ errors # <<>> THEN Err(errors[Len(errors)])
    ELSE Ok(diagnostics)

\* AnyHandler::update_diagnostics, given the pass.
update_diagnostics(docs, uri, p) ==
    IF docs[uri] = NoDoc THEN Err(NoSuchDocument(uri))
    ELSE LET c == collect(p, 1, <<>>, <<>>) IN aggregate(c[1], c[2])

\* AnyHandler::hover, called by handle_request: the texts of the handlers
\* that implement hover for the document.  Just does not.
any_hover(docs, hs, uri) ==
    IF docs[uri] = NoDoc THEN Err(NoSuchDocument(uri)) ELSE Ok(<<>>)

\* What a failing tool prints in the server's runs: an error report, a
\* warning report, and reports the pattern misses.
ServerStderrCases ==
    {c \in StderrCases :
        /\ c.before = <<>>
        /\ c.separator = <<":", " ">>
        /\ c.newline = <<"\n">>
        /\ c.line = <<"7">>
        /\ c.col = <<"1", "3">>}

\* How the tool run of one call can go, and what the call then returns.
ToolOutcomes ==
    {[io |-> io, result |-> just_result_of(io, StderrText(c))] :
        io \in IoOutcomes, c \in ServerStderrCases}

\* How one Just::update_diagnostics call on contents can go.
CallOutcomes(contents) ==
    {c \in [io : IoOutcomes, written : 0..Len(contents),
            result : {o.result : o \in ToolOutcomes}] :
        /\ written_as(c.io, contents, c.written)
        /\ [io |-> c.io, result |-> c.result] \in ToolOutcomes}

\* A Just as Just::new leaves it: the temp file empty, no call made.
NewJust == [temp_file |-> <<>>, run |-> NoRun, result |-> NoResult]

ServerNew ==
    /\ phase = "new"
    /\ handlers = <<>>
    /\ offers = <<>>
    /\ justs = <<>>
    /\ text_documents = [u \in Uris |-> NoDoc]
    /\ capabilities = DefaultCapabilities
    /\ pass = <<>>
    /\ response = NoResponse

Init == ServerNew /\ JustIdle /\ PropsIdle /\ HoverIdle /\ MergeIdle

\* Just::new: Some when `just --version` could be run and the temporary
\* file could be created.
just_new(tool_found, temp_created) == tool_found /\ temp_created

\* AnyHandler::new: the default value, and a Just pushed when Just::new
\* gave one.
AnyHandlerNew(tool_found, temp_created) ==
    /\ phase = "new"
    /\ phase' = "constructed"
    /\ handlers' = IF just_new(tool_found, temp_created) THEN <<"Just">> ELSE <<>>
    /\ offers' = handler_offers(handlers')
    /\ justs' = [i \in 1..Len(handlers') |-> NewJust]
    /\ UNCHANGED <<text_documents, capabilities, pass, response, just_vars, props_vars, hover_vars, merge_vars>>

\* run_lsp: the InitializeResult carries get_capabilities().
Initialize ==
    /\ phase = "constructed"
    /\ phase' = "running"
    /\ capabilities' = get_capabilities(offers)
    /\ UNCHANGED <<handlers, offers, justs, text_documents, pass, response, just_vars, props_vars, hover_vars, merge_vars>>

\* textDocument/didOpen
DidOpen(uri, language_id, content) ==
    /\ phase = "running"
    /\ text_documents' =
           [text_documents EXCEPT ![uri] = Document(language_id, content)]
    /\ response' = NoResponse
    /\ pass' = <<>>
    /\ UNCHANGED <<phase, handlers, offers, justs, capabilities, just_vars, props_vars, hover_vars, merge_vars>>

\* textDocument/didChange
DidChange(uri, content) ==
    /\ phase = "running"
    /\ text_documents[uri] # NoDoc
    /\ text_documents' =
           [text_documents EXCEPT ![uri] =
               Document(text_documents[uri].language_id, content)]
    /\ response' = NoResponse
    /\ pass' = <<>>
    /\ UNCHANGED <<phase, handlers, offers, justs, capabilities, just_vars, props_vars, hover_vars, merge_vars>>

\* textDocument/didClose
DidClose(uri) ==
    /\ phase = "running"
    /\ text_documents[uri] # NoDoc
    /\ text_documents' = [text_documents EXCEPT ![uri] = NoDoc]
    /\ response' = NoResponse
    /\ pass' = <<>>
    /\ UNCHANGED <<phase, handlers, offers, justs, capabilities, just_vars, props_vars, hover_vars, merge_vars>>

\* The response to textDocument/diagnostic, given the pass.
diagnostic_response(id, r) ==
    IF r.ok THEN new_ok(id, r.items)
    ELSE new_err(id, REQUEST_FAILED, to_string(r.error))

\* textDocument/diagnostic.  Every registered handler that supports the
\* document's filetype is called on the document's text: its Just truncates
\* and rewrites its temp file and runs the tool on it; how each call goes
\* (its I/O, the bytes written, what the tool prints when it fails) is the
\* environment's choice.
DiagnosticRequest(uri) ==
    LET doc == text_documents[uri]
        id == Request("textDocument/diagnostic", uri)
        n == Len(handlers)
        called == {i \in 1..n : doc # NoDoc /\ filetype_supported(handlers[i], doc.language_id)}
    IN
    /\ phase = "running"
    /\ \E calls \in [called -> IF doc = NoDoc THEN {} ELSE CallOutcomes(doc.content)] :
       \E after \in {[i \in 1..n |->
                         IF i \in called
                         THEN just_call(justs[i].temp_file, doc.content,
                                        calls[i].io, calls[i].written, calls[i].result)
                         ELSE justs[i]]} :
       \E p \in {IF doc = NoDoc THEN <<>>
                 ELSE PassOf(handlers, doc.language_id,
                             [i \in 1..n |-> after[i].result])} :
          /\ justs' = after
          /\ pass' = p
          /\ response' = diagnostic_response(
                             id, update_diagnostics(text_documents, uri, p))
    /\ UNCHANGED <<phase, handlers, offers, text_documents, capabilities,
                   just_vars, props_vars, hover_vars, merge_vars>>

\* textDocument/hover
HoverRequest(uri) ==
    LET id == Request("textDocument/hover", uri)
        r == any_hover(text_documents, handlers, uri)
    IN
    /\ phase = "running"
    /\ response' = IF r.ok THEN new_ok(id, join(r.items, <<"\n", "\n">>))
                   ELSE new_err(id, REQUEST_FAILED, to_string(r.error))
    /\ pass' = <<>>
    /\ UNCHANGED <<phase, handlers, offers, justs, text_documents, capabilities, just_vars, props_vars, hover_vars, merge_vars>>

\* Any request with another method.
OtherRequest ==
    /\ phase = "running"
    /\ response' = new_err(Request("other", ""), REQUEST_FAILED, <<"Not yet implemented">>)
    /\ pass' = <<>>
    /\ UNCHANGED <<phase, handlers, offers, justs, text_documents, capabilities, just_vars, props_vars, hover_vars, merge_vars>>

Next ==
    \/ \E tool_found \in BOOLEAN, temp_created \in BOOLEAN :
          AnyHandlerNew(tool_found, temp_created)
    \/ Initialize
    \/ \E u \in Uris, l \in FileTypes, c \in Contents : DidOpen(u, l, c)
    \/ \E u \in Uris, c \in Contents : DidChange(u, c)
    \/ \E u \in Uris : DidClose(u)
    \/ \E u \in Uris : DiagnosticRequest(u)
    \/ \E u \in Uris : HoverRequest(u)
    \/ OtherRequest

Spec == Init /\ [][Next]_vars

JustInit ==
    /\ ServerNew
    /\ MergeIdle
    /\ PropsIdle
    /\ HoverIdle
    /\ stderr_case \in StderrCases
    /\ temp_file = <<>>
    /\ just_run = NoRun
    /\ just_result = NoResult

JustNext ==
    \E contents \in JustContents, io \in IoOutcomes, written \in 0..2 :
        JustUpdateDiagnostics(contents, io, written)

SpecJust == JustInit /\ [][JustNext]_vars

PropsInit ==
    /\ ServerNew
    /\ MergeIdle
    /\ JustIdle
    /\ HoverIdle
    /\ fs \in UNION {Chains(n) : n \in 1..MaxDepth}
    /\ prop_files = <<>>
    /\ definitions = << >>
    /\ props_built = FALSE

PropsNext == PropsNew

SpecProps == PropsInit /\ [][PropsNext]_vars

HoverInit ==
    /\ ServerNew
    /\ MergeIdle
    /\ JustIdle
    /\ fs = HoverFs
    /\ prop_files = get_prop_files(HoverFs)
    /\ definitions = HoverIndex
    /\ props_built = TRUE
    /\ hover_request \in [contents : HoverTexts, position : HoverPositions]
    /\ hover_result = Pending

HoverNext == Hover

SpecHover == HoverInit /\ [][HoverNext]_vars

(***************************************************************************)
(* The capability fold of get_capabilities as a function of the values     *)
(* handler.get_capabilities() returns.  The one variant, Just, always      *)
(* returns JustCapabilities; the fold takes any ServerCapabilities.        *)
(***************************************************************************)
MergeInit ==
    /\ ServerNew
    /\ JustIdle
    /\ PropsIdle
    /\ HoverIdle
    /\ merge_request \in SeqsUpTo(OfferedCapabilities, MaxHandlers)
    /\ merge_result = NotMerged

\* The fold is run on the values.
Merge ==
    /\ merge_result = NotMerged
    /\ merge_result' = get_capabilities(merge_request)
    /\ UNCHANGED <<merge_request, server_vars, just_vars, props_vars, hover_vars>>

MergeNext == Merge

SpecMerge == MergeInit /\ [][MergeNext]_vars

(***************************************************************************)
(* update_diagnostics over a handlers vector of any length.                *)
(* AnyHandler::new registers at most one handler; the loop is written for  *)
(* any number of them, and is run here on vectors of up to MaxHandlers.    *)
(***************************************************************************)
\* Several Just handlers are registered and a document is open.
AggregateInit ==
    /\ phase = "running"
    /\ handlers \in SeqsUpTo(HandlerVariants, MaxHandlers)
    /\ offers = handler_offers(handlers)
    /\ justs = [i \in 1..Len(handlers) |-> NewJust]
    /\ capabilities = get_capabilities(offers)
    /\ \E l \in FileTypes :
          text_documents = [u \in Uris |-> Document(l, <<"x">>)]
    /\ pass = <<>>
    /\ response = NoResponse
    /\ JustIdle
    /\ PropsIdle
    /\ HoverIdle
    /\ MergeIdle

AggregateNext == \E u \in Uris : DiagnosticRequest(u)

SpecAggregate == AggregateInit /\ [][AggregateNext]_vars

(***************************************************************************)
(* Diagnostics aggregation: the claims                                     *)
(***************************************************************************)
Answered == response.kind # "none" /\ response.id.method = "textDocument/diagnostic"

Succeeded(p) == {i \in DOMAIN p : ~IsSkipped(p[i]) /\ p[i].ok}
Failed(p) == {i \in DOMAIN p : ~IsSkipped(p[i]) /\ ~p[i].ok}

\* The diagnostics of the handlers that succeeded, in handler order.
SuccessfulDiagnostics(p) ==
    Flatten([i \in DOMAIN p |-> IF i \in Succeeded(p) THEN p[i].items ELSE <<>>])

C2_LastFailureIsReturned ==
    (Answered /\ Failed(pass) # {} /\ Succeeded(pass) = {}) =>
        /\ response.kind = "error"
        /\ response.code = REQUEST_FAILED
        /\ response.message = to_string(pass[Max(Failed(pass))].error)

\* A pass in which two handlers failed with different errors, and the error
\* sent is the later one's.
C2_Witness ==
    /\ Answered
    /\ Succeeded(pass) = {}
    /\ Cardinality(Failed(pass)) >= 2
    /\ pass[Min(Failed(pass))].error # pass[Max(Failed(pass))].error
    /\ response.kind = "error"
    /\ response.message = to_string(pass[Max(Failed(pass))].error)

(***************************************************************************)
(* Capability merge: the claims                                            *)
(***************************************************************************)
\* What is offered for field f, in fold order: the value get_capabilities
\* starts from, then each handler's.
Offers(f) ==
    <<InitialCapabilities[f]>> \o [i \in 1..Len(merge_request) |-> merge_request[i][f]]

FirstOffer(f) ==
    LET present == {i \in 1..Len(Offers(f)) : Offers(f)[i] # None}
    IN IF present = {} THEN None ELSE Offers(f)[Min(present)]

\* C3: the merged capabilities hold, for every field, the first non-absent
\* value met in registration order (the fold starts from the two preset
\* fields, which therefore count as set before any handler); a field set
\* after some prefix of the handlers keeps that value whatever the later
\* handlers offer, and a field absent after a prefix takes the value of the
\* next handler that offers one.
C3_FirstNonAbsentWins ==
    merge_result # NotMerged =>
        \A f \in Fields :
            /\ merge_result[f] = FirstOffer(f)
            /\ \A k \in 0..Len(merge_request) :
                   LET soFar == get_capabilities(SubSeq(merge_request, 1, k))[f] IN
                   /\ soFar # None => merge_result[f] = soFar
                   /\ (soFar = None /\ k < Len(merge_request) /\ merge_request[k + 1][f] # None) =>
                          merge_result[f] = merge_request[k + 1][f]

\* Two handlers offer different values for one field and the earlier one's
\* is kept; another field, absent in the earlier handler, is filled by the
\* later one.
C3_Witness ==
    /\ merge_result # NotMerged
    /\ \E i, j \in 1..Len(merge_request), f, g \in Fields :
          /\ i < j
          /\ \A k \in 0..(i - 1) : Offers(f)[k + 1] = None /\ Offers(g)[k + 1] = None
          /\ merge_request[i][f] # None /\ merge_request[j][f] # None /\ merge_request[i][f] # merge_request[j][f]
          /\ merge_result[f] = merge_request[i][f]
          /\ \A k \in i..(j - 1) : merge_request[k][g] = None
          /\ merge_request[j][g] # None
          /\ merge_result[g] = merge_request[j][g]

(***************************************************************************)
(* Document lifecycle: the claim                                           *)
(***************************************************************************)
Supported(filetype) ==
    \E i \in 1..Len(handlers) : filetype_supported(handlers[i], filetype)

\* C4: a document opened with a filetype no registered handler supports has
\* no entry, and a diagnostics request for it is answered with the
\* NoSuchDocument error.
C4_UnsupportedOpenLeavesNoEntry ==
    \A u \in Uris :
        (Answered /\ response.id.uri = u
            /\ (text_documents[u] = NoDoc
                \/ ~Supported(text_documents[u].language_id))) =>
            /\ text_documents[u] = NoDoc
            /\ response = new_err(Request("textDocument/diagnostic", u),
                                  REQUEST_FAILED, to_string(NoSuchDocument(u)))

(***************************************************************************)
(* Just: the claims                                                        *)
(***************************************************************************)
NoNewline(s, from, to) == \A k \in from..to : s[k] # "\n"

\* The text contains the two-part pattern: `word: message` up to a line
\* break, and on the next line the arrow followed, later on that line, by
\* `:digits:digits`.
HasPattern(s) ==
    \E i \in 1..Len(s) : \E j \in (i + 1)..(Len(s) - 1) :
        /\ \A k \in i..(j - 1) : is_word(s[k])
        /\ s[j] = ":"
        /\ is_whitespace(s[j + 1])
        /\ \E e \in (j + 2)..Len(s) :
              /\ s[e] = "\n"
              /\ NoNewline(s, j + 2, e - 1)
              /\ \E a \in (e + 1)..(Len(s) - 2) :
                    /\ <<s[a], s[a + 1], s[a + 2]>> = <<"U2014", "U2014", "U25B6">>
                    /\ NoNewline(s, e + 1, a - 1)
                    /\ \E c \in (a + 3)..Len(s) :
                          /\ s[c] = ":"
                          /\ NoNewline(s, a + 3, c - 1)
                          /\ \E d \in (c + 2)..(Len(s) - 1) :
                                /\ s[d] = ":"
                                /\ \A k \in (c + 1)..(d - 1) : is_digit(s[k])
                                /\ is_digit(s[d + 1])

\* The number each enumerated digit string reports, when it is a u32.
ReportedU32 ==
    (<<"0">> :> 0) @@ (<<"1">> :> 1) @@ (<<"7">> :> 7) @@ (<<"1", "3">> :> 13)

\* The value the code works with: the reported number, or 0 when the digits
\* are no u32 (not ASCII, or above u32::MAX).
AsU32(ds) == IF ds \in DOMAIN ReportedU32 THEN ReportedU32[ds] ELSE 0

FailedRunMatched ==
    just_run.io = "exit_fail" /\ HasPattern(StderrText(stderr_case))

\* C5 (as stated): every stderr text matching the grammar yields exactly one
\* diagnostic on the single line line-1, from column col-1 to column col:
\* one column wide for every matched line and column.
C5_RangeSpansOneColumn ==
    FailedRunMatched =>
        /\ just_result.ok
        /\ Len(just_result.items) = 1
        /\ LET r == just_result.items[1].range IN
           /\ r.start.line = r.end.line
           /\ r.end.character - r.start.character = 1
           /\ stderr_case.line \in DOMAIN ReportedU32 =>
                 r.start.line = ReportedU32[stderr_case.line] - 1
           /\ stderr_case.col \in DOMAIN ReportedU32 =>
                 /\ r.start.character = ReportedU32[stderr_case.col] - 1
                 /\ r.end.character = ReportedU32[stderr_case.col]

\* C5 (amended): every stderr text matching the grammar yields exactly one
\* diagnostic on a single line.  With L and C the reported line and column,
\* taken as 0 when they are no u32, the range goes from (L-1, C-1) to
\* (L-1, C) with each subtraction stopping at 0: it is one column wide
\* exactly when C >= 1, and empty, at column 0, when C = 0.
C5_RangeSaturatesAtZero ==
    FailedRunMatched =>
        /\ just_result.ok
        /\ Len(just_result.items) = 1
        /\ LET r == just_result.items[1].range
               L == AsU32(stderr_case.line)
               C == AsU32(stderr_case.col)
           IN /\ r.start.line = r.end.line
              /\ r.start.line = IF L = 0 THEN 0 ELSE L - 1
              /\ r.start.character = IF C = 0 THEN 0 ELSE C - 1
              /\ r.end.character = C
              /\ (r.end.character - r.start.character = 1) <=> (C >= 1)

\* A matched text reporting line 7, column 13: the range (6,12)-(6,13).
C5_Witness ==
    /\ FailedRunMatched
    /\ stderr_case.line = <<"7">>
    /\ stderr_case.col = <<"1", "3">>
    /\ just_result.ok
    /\ Len(just_result.items) = 1
    /\ just_result.items[1].range =
          [start |-> Position(6, 12), end |-> Position(6, 13)]

\* C6: when the tool failed and its stderr text does not contain the
\* pattern, update_diagnostics returns Ok with no diagnostic; and whatever
\* the text, parse_stderr gives at most one diagnostic.
C6_ParseMissIsEmptyOk ==
    just_run.io = "exit_fail" =>
        /\ just_result.ok
        /\ Len(just_result.items) <= 1
        /\ ~HasPattern(StderrText(stderr_case)) => just_result = Ok(<<>>)

\* A failed run whose stderr has a severity line and the arrow but no
\* line:column after it.
C6_Witness ==
    /\ just_run.io = "exit_fail"
    /\ ~HasPattern(StderrText(stderr_case))
    /\ stderr_case.marker = <<" ">> \o Arrow
    /\ stderr_case.newline = <<"\n">>
    /\ stderr_case.separator = <<":", " ">>
    /\ just_result = Ok(<<>>)

(***************************************************************************)
(* Hover: the claims                                                       *)
(***************************************************************************)
HoverDone == hover_result # Pending

Newlines(s) == {k \in 1..Len(s) : s[k] = "\n"}
NewlinesBefore(s, k) == Cardinality({n \in Newlines(s) : n < k})

\* The indices of the characters of line n of s, its line break excluded.
LineIndices(s, n) == {k \in 1..Len(s) : s[k] # "\n" /\ NewlinesBefore(s, k) = n}

\* The indices of the characters from the start of line n to the end of s.
SliceIndices(s, n) == {k \in 1..Len(s) : NewlinesBefore(s, k) >= n}

\* UTF-16 units, and UTF-8 bytes, of the characters of s with index in K.
Units(s, K) == Cardinality(K) + Cardinality({k \in K : s[k] \in FourByteChars})
Bytes(s, K) ==
    Cardinality(K) + Cardinality({k \in K : s[k] \in TwoByteChars})
      + 2 * Cardinality({k \in K : s[k] \in ThreeByteChars})
      + 3 * Cardinality({k \in K : s[k] \in FourByteChars})

\* The UTF-16 column at which the k-th character starts on its line.
ColumnOf(s, n, k) == Units(s, {m \in LineIndices(s, n) : m < k})

\* The characters of line n that start at the UTF-16 column (one, or none).
CharsAtColumn(s, n, col) ==
    {k \in LineIndices(s, n) : ColumnOf(s, n, k) = col}

\* The token around the k-th character: the longest run of token characters.
TokenAround(s, k) ==
    LET a == Min({i \in 1..k : \A m \in i..k : is_token_char(s[m])})
        b == Max({i \in k..Len(s) : \A m \in k..i : is_token_char(s[m])})
    IN SubSeq(s, a, b)

\* The hover text of an indexed name: one block per definition, a blank
\* line between blocks.
Rendered(name) ==
    LET defs == definitions[name] IN
    Flatten([i \in 1..(2 * Len(defs) - 1) |->
        IF i % 2 = 0 THEN <<"\n", "\n">>
        ELSE LET d == defs[(i + 1) \div 2] IN
             d.from_path \o <<"\n">> \o d.name \o <<" ", "=", " ">> \o d.value])

\* C7: hover returns no hover whenever the requested UTF-16 column of the
\* target line falls on a non-token character, whatever precedes it on the
\* line; with the column inside an indexed token it returns that token's
\* definitions.
C7_NoHoverOnNonToken ==
    HoverDone =>
        LET s == hover_request.contents
            n == hover_request.position.line
            col == hover_request.position.character
        IN \A k \in CharsAtColumn(s, n, col) :
              /\ ~is_token_char(s[k]) => hover_result = NoHover
              /\ (is_token_char(s[k]) /\ TokenAround(s, k) \in DOMAIN definitions) =>
                     hover_result = SomeHover(Rendered(TokenAround(s, k)))

\* The scan of the slice that starts at line n, seen from outside: where it
\* ends (the first non-token character at or past the column, else the end
\* of the text).
ScanStops(s, n, col) ==
    {k \in SliceIndices(s, n) :
        ~is_token_char(s[k]) /\ Units(s, {m \in SliceIndices(s, n) : m < k}) >= col}
ScanEnd(s, n, col) ==
    IF ScanStops(s, n, col) = {} THEN Len(s) + 1 ELSE Min(ScanStops(s, n, col))
\* The characters the scan went over, and whether a token ends where it ended.
Scanned(s, n, col) == {k \in SliceIndices(s, n) : k < ScanEnd(s, n, col)}
SpanEmpty(s, n, col) ==
    Scanned(s, n, col) = {} \/ ~is_token_char(s[ScanEnd(s, n, col) - 1])

\* C8: no hover whenever the scan exhausts the slice without
\* stopping at a non-token character at or past the column, whenever the
\* token span is empty, and whenever the column lies beyond the text scanned.
C8_NoHoverWhenExhausted ==
    HoverDone =>
        LET s == hover_request.contents
            n == hover_request.position.line
            col == hover_request.position.character
        IN /\ ScanStops(s, n, col) = {} => hover_result = NoHover
           /\ SpanEmpty(s, n, col) => hover_result = NoHover
           /\ Units(s, Scanned(s, n, col)) <= col => hover_result = NoHover

(***************************************************************************)
(* Property files: the claims                                              *)
(***************************************************************************)
HasStopMarker(dir) ==
    \E k \in 1..Len(dir.entries) : dir.entries[k].name \in StopAtNames

RECURSIVE Keep(_, _)
\* The elements of seq that are in the set S, in order.
Keep(seq, S) ==
    IF seq = <<>> THEN <<>>
    ELSE (IF Head(seq) \in S THEN <<Head(seq)>> ELSE <<>>) \o Keep(Tail(seq), S)

\* The recognized files of one level, in listing order.
RecognizedAt(level) ==
    LET es == fs[level].entries
        ok == {e \in {es[k] : k \in 1..Len(es)} :
                  e.kind = "file" /\ e.name \in FileNames /\ e.name \notin StopAtNames}
    IN [k \in 1..Len(Keep(es, ok)) |-> [dir |-> level, name |-> Keep(es, ok)[k].name]]

\* The last level the walk covers: the first one with a stop marker, else
\* the one below the first unreadable parent, else the filesystem root.
LastLevel ==
    Min({l \in 1..Len(fs) : HasStopMarker(fs[l])}
        \cup {l - 1 : l \in {m \in 2..Len(fs) : ~fs[m].readable}}
        \cup {Len(fs)})

\* C9: started at a readable directory, the walk returns the recognized
\* files of every level from that directory up to and including the first
\* level holding a stop marker; that level's own files are included, none
\* from above it is, and an unreadable parent ends the walk with what was
\* found below it.
C9_WalkStopsAtMarkerLevel ==
    (props_built /\ fs[1].readable) =>
        /\ prop_files = Flatten([l \in 1..LastLevel |-> RecognizedAt(l)])
        /\ \A k \in 1..Len(prop_files) : prop_files[k].dir <= LastLevel

\* The stop marker is two levels up or more, its level has a recognized file
\* of its own, which is returned, and a level above it has one too, which
\* is not.
C9_Witness ==
    /\ props_built
    /\ fs[1].readable
    /\ LastLevel >= 2
    /\ LastLevel < Len(fs)
    /\ HasStopMarker(fs[LastLevel])
    /\ RecognizedAt(LastLevel) # <<>>
    /\ fs[LastLevel + 1].readable
    /\ RecognizedAt(LastLevel + 1) # <<>>
    /\ \E k \in 1..Len(prop_files) : prop_files[k].dir = LastLevel
    /\ \A k \in 1..Len(prop_files) : prop_files[k].dir <= LastLevel

\* A text as its lines: the pieces between line breaks.
LineCount(t) == Cardinality(Newlines(t)) + (IF t # <<>> /\ t[Len(t)] # "\n" THEN 1 ELSE 0)
LineText(t, n) ==
    LET idx == {k \in 1..Len(t) : t[k] # "\n" /\ NewlinesBefore(t, k) = n - 1}
    IN IF idx = {} THEN <<>> ELSE SubSeq(t, Min(idx), Max(idx))

\* s without the whitespace around it.
Trimmed(s) ==
    LET solid == {k \in 1..Len(s) : ~is_whitespace(s[k])}
    IN IF solid = {} THEN <<>> ELSE SubSeq(s, Min(solid), Max(solid))

\* The text of the file at a path.
FileText(path) ==
    LET es == fs[path.dir].entries
    IN (CHOOSE e \in {es[k] : k \in 1..Len(es)} : e.name = path.name).text

\* The definition a line gives: the trimmed text before and after its first '='.
DefinitionOfLine(path, line) ==
    LET eq == Min({k \in 1..Len(line) : line[k] = "="})
    IN [from_path |-> to_string_lossy(path),
        name |-> Trimmed(SubSeq(line, 1, eq - 1)),
        value |-> Trimmed(SubSeq(line, eq + 1, Len(line)))]

HasEquals(line) == \E k \in 1..Len(line) : line[k] = "="

\* Every definition of the files read, in file order then line order.
DefinitionsOfFile(path) ==
    LET t == FileText(path) IN
    IF t = Unreadable THEN <<>>
    ELSE Flatten([n \in 1..LineCount(t) |->
            IF HasEquals(LineText(t, n)) THEN <<DefinitionOfLine(path, LineText(t, n))>>
            ELSE <<>>])

AllDefinitions == Flatten([k \in 1..Len(prop_files) |-> DefinitionsOfFile(prop_files[k])])

\* C10: every line with a '=' is split at its first '=' into a trimmed name
\* and a trimmed value and appended to the entry of its name: each name maps
\* to all the definitions of that name, in file-and-line order, duplicates
\* kept; a line without '=' adds nothing.
C10_DefinitionsAreAppended ==
    props_built =>
        LET all == AllDefinitions
            named(n) == {d \in {all[k] : k \in 1..Len(all)} : d.name = n}
        IN /\ DOMAIN definitions = {all[k].name : k \in 1..Len(all)}
           /\ \A n \in DOMAIN definitions : definitions[n] = Keep(all, named(n))

\* FOO is defined twice in one file, as bar and as baz, and once more in a
\* file further up: the three definitions are kept, in that order.
C10_Witness ==
    /\ props_built
    /\ <<"F", "O", "O">> \in DOMAIN definitions
    /\ LET d == definitions[<<"F", "O", "O">>] IN
       /\ Len(d) = 3
       /\ d[1].value = <<"b", "a", "r">>
       /\ d[2].value = <<"b", "a", "z">>
       /\ d[1].from_path = d[2].from_path
       /\ d[3].from_path # d[1].from_path
       /\ d[3].value = <<"1">>

(***************************************************************************)
(* C11: in every call of Just::update_diagnostics that spawns the tool,    *)
(* the transient file the tool reads holds exactly the contents passed to  *)
(* that call, whatever the file held when the call began (in particular    *)
(* when it held more bytes than the new contents).                         *)
(***************************************************************************)
ToolRan == just_run.io \in {"exit_ok", "exit_ok_not_utf8", "exit_fail", "exit_fail_not_utf8"}

C11_ToolReadsCurrentContents ==
    ToolRan => /\ just_run.tool_read = just_run.contents
               /\ temp_file = just_run.contents

\* A shorter text written over a longer one, and the tool spawned on it.
C11_Witness ==
    /\ ToolRan
    /\ Len(just_run.file_before) > Len(just_run.contents)
    /\ just_run.contents # <<>>
    /\ just_run.tool_read = just_run.contents

(***************************************************************************)
(* C12: the capabilities returned by AnyHandler::get_capabilities have     *)
(* position_encoding UTF-16 and text_document_sync INCREMENTAL, for every  *)
(* sequence of registered handlers, also when a handler advertises other   *)
(* values for these two fields.                                            *)
(***************************************************************************)
C12_PresetFieldsAreFixed ==
    merge_result # NotMerged =>
        /\ merge_result["position_encoding"] = "utf-16"
        /\ merge_result["text_document_sync"] = "INCREMENTAL"

\* Handlers advertise other values for both fields, and the returned
\* capabilities carry the preset ones.
C12_Witness ==
    /\ merge_result # NotMerged
    /\ \E i \in 1..Len(merge_request) : merge_request[i]["position_encoding"] = "utf-8"
    /\ \E i \in 1..Len(merge_request) : merge_request[i]["text_document_sync"] = "FULL"
    /\ merge_result["position_encoding"] = "utf-16"
    /\ merge_result["text_document_sync"] = "INCREMENTAL"

(***************************************************************************)
(* C13: whenever hover resolves a token, the token lies entirely on the    *)
(* requested line and covers the requested UTF-16 column (the column is    *)
(* at a character of the token or directly after its last one); so a       *)
(* column at or beyond the end of the requested line never resolves to a   *)
(* token of a later line.                                                  *)
(***************************************************************************)
\* The tokens of line n of s: the maximal runs of token characters, as
\* pairs of first and last index.
TokensOnLine(s, n) ==
    {t \in LineIndices(s, n) \X LineIndices(s, n) :
        /\ t[1] <= t[2]
        /\ \A m \in t[1]..t[2] : is_token_char(s[m])
        /\ t[1] = 1 \/ ~is_token_char(s[t[1] - 1])
        /\ t[2] = Len(s) \/ ~is_token_char(s[t[2] + 1])}

Covers(s, n, t, col) ==
    /\ ColumnOf(s, n, t[1]) <= col
    /\ col <= ColumnOf(s, n, t[2]) + len_utf16(s[t[2]])

C13_ResolvedTokenIsOnLineAtColumn ==
    (HoverDone /\ hover_result.some) =>
        LET s == hover_request.contents
            n == hover_request.position.line
            col == hover_request.position.character
        IN \E t \in TokensOnLine(s, n) :
              /\ Covers(s, n, t, col)
              /\ SubSeq(s, t[1], t[2]) \in DOMAIN definitions
              /\ hover_result = SomeHover(Rendered(SubSeq(s, t[1], t[2])))

====
